---- MODULE Spec2Model ----
(***************************************************************************)
(* cog-validator: the TIFF / BigTIFF structure parser (src/tiff-parser.ts) *)
(* and the COG layout validator (src/validator.ts).                        *)
(*                                                                         *)
(* A file is a DataView over a byte buffer: ByteLength(view) bytes, the    *)
(* byte at offset i being ByteAt(view, i).  A call that can throw is       *)
(* modelled by its completion: Return(v) or Throw(name, message).          *)
(* All integers of the modelled files stay below 2^31, where Number() and  *)
(* BigInt() are exact.                                                     *)
(***************************************************************************)
EXTENDS Integers, Sequences, FiniteSets, TLC

VARIABLES view, pc, header, currentOffset, seenOffsets, ifds, parseIfdCalls,
          structure, error, result

vars == <<view, pc, header, currentOffset, seenOffsets, ifds, parseIfdCalls,
          structure, error, result>>

---------------------------------------------------------------------------
(* Completions of a call *)

\* F(x), with x evaluated once: const y = x; F(y)
Bind(x, F(_)) == CHOOSE r \in {F(y) : y \in {x}} : TRUE

Return(v) == [thrown |-> FALSE, value |-> v]

Throw(name, message) == [thrown |-> TRUE, name |-> name, message |-> message]

\* "no value yet": a local that is not assigned, a function that has not returned
None == [none |-> TRUE]

---------------------------------------------------------------------------
(* File layouts: the bytes of the files the parser is run on *)

\* byte j (counted from 0, in file order) of x written as a size-byte unsigned
\* field; x is below 2^31, so the bytes above the fourth are 0
ByteOfUint(x, size, littleEndian, j) ==
    LET p == IF littleEndian THEN j ELSE size - 1 - j IN
    IF p >= 4 THEN 0 ELSE (x \div (256 ^ p)) % 256

\* x written as a size-byte unsigned field
Encode(x, size, littleEndian) ==
    [j \in 1..size |-> ByteOfUint(x, size, littleEndian, j - 1)]

HeaderSize(bigTiff) == IF bigTiff THEN 16 ELSE 8

DirSize(bigTiff, nEntries) ==
    IF bigTiff THEN 8 + 20 * nEntries + 8 ELSE 2 + 12 * nEntries + 4

\* the field that byte i of the 8-byte (classic) or 16-byte (BigTIFF) header of
\* a well-formed file lies in, and the byte's place in it: the marker "II"
\* (0x4949) or "MM" (0x4d4d), the format code 42 or 43, then the offset of the
\* first directory (BigTIFF: the offset size 8 and a zero before it)
HeaderField(littleEndian, bigTiff, firstIfdOffset, i) ==
    IF i < 2 THEN <<IF littleEndian THEN 18761 ELSE 19789, 2, i>>
    ELSE IF i < 4 THEN <<IF bigTiff THEN 43 ELSE 42, 2, i - 2>>
    ELSE IF ~bigTiff THEN <<firstIfdOffset, 4, i - 4>>
    ELSE IF i < 6 THEN <<8, 2, i - 4>>
    ELSE IF i < 8 THEN <<0, 2, i - 6>>
    ELSE <<firstIfdOffset, 8, i - 8>>

\* the field that byte j of directory k lies in, and the byte's place in it:
\* the entry count, then nEntries entries (entry e has tag 321 + e, type LONG
\* (4) or LONG8 (16), count 1 and value 100 * k + e), then the next offset
DirField(bigTiff, nEntries, k, nextIfdOffset, j) ==
    LET c == IF bigTiff THEN 8 ELSE 2
        r == IF bigTiff THEN 20 ELSE 12
        w == IF bigTiff THEN 8 ELSE 4
        e == ((j - c) \div r) + 1
        f == (j - c) % r
    IN
    IF j < c THEN <<nEntries, c, j>>
    ELSE IF j >= c + nEntries * r THEN <<nextIfdOffset, w, j - c - nEntries * r>>
    ELSE IF f < 2 THEN <<321 + e, 2, f>>
    ELSE IF f < 4 THEN <<IF bigTiff THEN 16 ELSE 4, 2, f - 2>>
    ELSE IF f < 4 + w THEN <<1, w, f - 4>>
    ELSE <<100 * k + e, w, f - 4 - w>>

\* directory k of a generated file starts here (0: no directory)
DirOffset(bigTiff, nEntries, k) ==
    IF k = 0 THEN 0 ELSE HeaderSize(bigTiff) + (k - 1) * DirSize(bigTiff, nEntries)

\* the directory that byte i of a generated file lies in
DirIndexAt(bigTiff, nEntries, i) ==
    ((i - HeaderSize(bigTiff)) \div DirSize(bigTiff, nEntries)) + 1

\* the field that byte i lies in, and the byte's place in it, in a file whose
\* directories, of nEntries entries each, lie one after the other behind the
\* header; nextIfdOffset is what the directory that holds byte i points at
ChainField(littleEndian, bigTiff, nEntries, firstIfdOffset, nextIfdOffset, i) ==
    IF i < HeaderSize(bigTiff)
    THEN HeaderField(littleEndian, bigTiff, firstIfdOffset, i)
    ELSE DirField(bigTiff, nEntries, DirIndexAt(bigTiff, nEntries, i), nextIfdOffset,
                  (i - HeaderSize(bigTiff)) % DirSize(bigTiff, nEntries))

\* byte i of that file
ChainByte(littleEndian, bigTiff, nEntries, firstIfdOffset, nextIfdOffset, i) ==
    Bind(ChainField(littleEndian, bigTiff, nEntries, firstIfdOffset, nextIfdOffset, i),
         LAMBDA field : ByteOfUint(field[1], field[2], littleEndian, field[3]))

\* a file of Len(next) directories: the header points at directory first and
\* directory k at directory next[k] (0: the end of the chain)
ChainFile(littleEndian, bigTiff, nEntries, first, next) ==
    [i \in 1..(HeaderSize(bigTiff) + Len(next) * DirSize(bigTiff, nEntries)) |->
       ChainByte(littleEndian, bigTiff, nEntries,
                 DirOffset(bigTiff, nEntries, first),
                 IF i - 1 < HeaderSize(bigTiff) THEN 0
                 ELSE DirOffset(bigTiff, nEntries,
                                next[DirIndexAt(bigTiff, nEntries, i - 1)]),
                 i - 1)]

\* A buffer is held either as its bytes, [bytes |-> <<...>>], or, for the
\* chains of about MAX_IFDS directories, as the layout that determines them:
\* [littleEndian, bigTiff, dirs, close] is the file ChainFile makes of dirs
\* empty directories in file order, the header pointing at the first, each
\* directory at the next and the last at directory close (0: at nothing).
IsBytes(v) == "bytes" \in DOMAIN v

ByteLength(v) ==
    IF IsBytes(v) THEN Len(v.bytes)
    ELSE HeaderSize(v.bigTiff) + v.dirs * DirSize(v.bigTiff, 0)

\* what directory k of the layout v points at
LayoutNext(v, k) == DirOffset(v.bigTiff, 0, IF k < v.dirs THEN k + 1 ELSE v.close)

\* the byte at offset i (counted from 0) of the buffer
ByteAt(v, i) ==
    IF IsBytes(v) THEN v.bytes[i + 1]
    ELSE Bind(i, LAMBDA n :
           ChainByte(v.littleEndian, v.bigTiff, 0, DirOffset(v.bigTiff, 0, 1),
                     IF n < HeaderSize(v.bigTiff) THEN 0
                     ELSE LayoutNext(v, DirIndexAt(v.bigTiff, 0, n)),
                     n))

---------------------------------------------------------------------------
(* DataView accessors *)

\* the byte of significance p (0: the least significant) of the size-byte field
\* at byteOffset; 0 above the field
FieldByte(v, byteOffset, size, littleEndian, p) ==
    IF p < size
    THEN ByteAt(v, byteOffset + (IF littleEndian THEN p ELSE size - 1 - p))
    ELSE 0

\* DataView.prototype.getUintN, N = 8 * size <= 64: a RangeError when the field
\* does not lie inside the view (its message is the runtime's), the unsigned
\* value of its bytes otherwise
GetUint(v, byteOffset, size, littleEndian) ==
    IF byteOffset + size > ByteLength(v)
    THEN Throw("RangeError", "Out of bounds access")
    ELSE Return(((((((FieldByte(v, byteOffset, size, littleEndian, 7) * 256
                      + FieldByte(v, byteOffset, size, littleEndian, 6)) * 256
                     + FieldByte(v, byteOffset, size, littleEndian, 5)) * 256
                    + FieldByte(v, byteOffset, size, littleEndian, 4)) * 256
                   + FieldByte(v, byteOffset, size, littleEndian, 3)) * 256
                  + FieldByte(v, byteOffset, size, littleEndian, 2)) * 256
                 + FieldByte(v, byteOffset, size, littleEndian, 1)) * 256
                + FieldByte(v, byteOffset, size, littleEndian, 0))

getUint16(v, byteOffset, littleEndian) == GetUint(v, byteOffset, 2, littleEndian)

getUint32(v, byteOffset, littleEndian) == GetUint(v, byteOffset, 4, littleEndian)

getBigUint64(v, byteOffset, littleEndian) == GetUint(v, byteOffset, 8, littleEndian)

\* Number(x), BigInt(x): exact on the integers of the model
Number(x) == x

BigInt(x) == x

---------------------------------------------------------------------------
(* tiff-parser.ts *)

BadByteOrder == Throw("Error", "Not a valid TIFF file: bad byte order marker")

BadMagic(magic) ==
    Throw("Error", "Not a valid TIFF file: bad magic number " \o ToString(magic))

ParseHeaderEnd_ClassicOffset(v, littleEndian, bigTiff) ==
    Bind(getUint32(v, 4, littleEndian),
         LAMBDA firstIfdOffset :
           IF firstIfdOffset.thrown THEN firstIfdOffset
           ELSE Return([bigTiff |-> bigTiff, littleEndian |-> littleEndian,
                        firstIfdOffset |-> firstIfdOffset.value]))

\* parseHeader once the byte order and the format are known
ParseHeaderEnd(v, littleEndian, bigTiff) ==
    Bind(IF bigTiff THEN getBigUint64(v, 8, littleEndian)
                    ELSE getUint32(v, 4, littleEndian),
         LAMBDA firstIfdOffset :
           IF firstIfdOffset.thrown THEN firstIfdOffset
           ELSE Return([bigTiff |-> bigTiff, littleEndian |-> littleEndian,
                        firstIfdOffset |-> firstIfdOffset.value]))

ParseHeaderMagic_AnyFormat(v, littleEndian) ==
    Bind(getUint16(v, 2, littleEndian),
         LAMBDA magic :
           IF magic.thrown THEN magic
           ELSE ParseHeaderEnd(v, littleEndian, magic.value = 43))

\* parseHeader once the byte order is known
ParseHeaderMagic(v, littleEndian) ==
    Bind(getUint16(v, 2, littleEndian),
         LAMBDA magic :
           IF magic.thrown THEN magic
           ELSE IF magic.value # 42 /\ magic.value # 43 THEN BadMagic(magic.value)
           ELSE ParseHeaderEnd(v, littleEndian, magic.value = 43))

\* 0x4949 = 18761 ("II"), 0x4d4d = 19789 ("MM")
parseHeader(v) ==
    Bind(getUint16(v, 0, FALSE),
         LAMBDA byteOrder :
           IF byteOrder.thrown THEN byteOrder
           ELSE IF byteOrder.value # 18761 /\ byteOrder.value # 19789 THEN BadByteOrder
           ELSE Bind(byteOrder.value = 18761,
                     LAMBDA littleEndian : ParseHeaderMagic(v, littleEndian)))

parseIfdEntry_CountValueSwapped(v, offset, h) ==
    Bind(<<getUint16(v, offset, h.littleEndian),
           getUint16(v, offset + 2, h.littleEndian),
           IF h.bigTiff THEN getBigUint64(v, offset + 12, h.littleEndian)
                        ELSE getUint32(v, offset + 8, h.littleEndian),
           IF h.bigTiff THEN getBigUint64(v, offset + 4, h.littleEndian)
                        ELSE getUint32(v, offset + 4, h.littleEndian)>>,
         LAMBDA read :
           IF \E k \in 1..4 : read[k].thrown
           THEN read[CHOOSE k \in 1..4 : read[k].thrown /\ \A j \in 1..(k - 1) : ~read[j].thrown]
           ELSE Return([tag |-> read[1].value, type |-> read[2].value,
                        count |-> read[3].value, value |-> read[4].value]))

parseIfdEntry(v, offset, h) ==
    Bind(<<getUint16(v, offset, h.littleEndian),
           getUint16(v, offset + 2, h.littleEndian),
           IF h.bigTiff THEN getBigUint64(v, offset + 4, h.littleEndian)
                        ELSE getUint32(v, offset + 4, h.littleEndian),
           IF h.bigTiff THEN getBigUint64(v, offset + 12, h.littleEndian)
                        ELSE getUint32(v, offset + 8, h.littleEndian)>>,
         LAMBDA read :
           \* read = <<tag, type, count, value>>, each returned or thrown
           IF \E k \in 1..4 : read[k].thrown
           THEN read[CHOOSE k \in 1..4 : read[k].thrown /\ \A j \in 1..(k - 1) : ~read[j].thrown]
           ELSE Return([tag |-> read[1].value, type |-> read[2].value,
                        count |-> read[3].value, value |-> read[4].value]))

\* the for loop of parseIfd, entries of entrySize bytes from pos on: it throws
\* what parseIfdEntry throws at the first iteration that throws, and otherwise
\* leaves the entryCount entries and the position after them.  (An entry
\* numbered ByteLength(v) or more starts past the end of the view, so the
\* first iteration that throws, if any, is numbered ByteLength(v) at most.)
ReadEntries(v, pos, h, entryCount, entrySize) ==
    Bind([i \in 0..(IF entryCount - 1 < ByteLength(v) THEN entryCount - 1
                    ELSE ByteLength(v)) |->
            parseIfdEntry(v, pos + i * entrySize, h)],
         LAMBDA entry :
           IF \E i \in DOMAIN entry : entry[i].thrown
           THEN entry[CHOOSE i \in DOMAIN entry :
                        entry[i].thrown /\ \A j \in 0..(i - 1) : ~entry[j].thrown]
           ELSE Return([entries |-> [i \in 1..entryCount |-> entry[i - 1].value],
                        pos |-> pos + entryCount * entrySize]))

ParseIfdEnd_ZeroPastEnd(v, offset, h, read) ==
    Bind(IF h.bigTiff THEN getBigUint64(v, read.pos, h.littleEndian)
                      ELSE getUint32(v, read.pos, h.littleEndian),
         LAMBDA nextIfdOffset :
           Return([offset |-> offset, entries |-> read.entries,
                   nextIfdOffset |-> IF nextIfdOffset.thrown THEN 0
                                     ELSE nextIfdOffset.value]))

\* parseIfd once the entries are read: the next-IFD offset behind them
ParseIfdEnd(v, offset, h, read) ==
    Bind(IF h.bigTiff THEN getBigUint64(v, read.pos, h.littleEndian)
                      ELSE getUint32(v, read.pos, h.littleEndian),
         LAMBDA nextIfdOffset :
           IF nextIfdOffset.thrown THEN nextIfdOffset
           ELSE Return([offset |-> offset, entries |-> read.entries,
                        nextIfdOffset |-> nextIfdOffset.value]))

parseIfd(v, offset, h) ==
    Bind(IF h.bigTiff THEN getBigUint64(v, Number(offset), h.littleEndian)
                      ELSE getUint16(v, Number(offset), h.littleEndian),
         LAMBDA entryCount :
           IF entryCount.thrown THEN entryCount
           ELSE Bind(ReadEntries(v, Number(offset) + (IF h.bigTiff THEN 8 ELSE 2), h,
                                 Number(entryCount.value),
                                 IF h.bigTiff THEN 20 ELSE 12),
                     LAMBDA read :
                       IF read.thrown THEN read
                       ELSE ParseIfdEnd(v, offset, h, read.value)))

MAX_IFDS == 1000

TooManyIfds ==
    Throw("Error", "Esceeded maximum IFD count (" \o ToString(MAX_IFDS)
                   \o "), file may be malformed")

CircularIfd(offset) ==
    Throw("Error", "Circular IFD reference detected at offset " \o ToString(offset))

---------------------------------------------------------------------------
(* validator.ts *)

Tags == [ImageWidth |-> 256, ImageLength |-> 257, TileWidth |-> 322,
         TileLength |-> 323, TileOffsets |-> 324, TileByteCounts |-> 325,
         StripOffsets |-> 273, StripByteCounts |-> 279]

\* the value undefined, and a value that is not undefined
Undefined == [undefined |-> TRUE]

Defined(x) == [undefined |-> FALSE, value |-> x]

Find_Last(entries, tagId) ==
    LET hits == {i \in 1..Len(entries) : entries[i].tag = tagId} IN
    IF hits = {} THEN Undefined
    ELSE Defined(entries[CHOOSE i \in hits : \A j \in hits : j <= i])

\* Array.prototype.find: the first element, in index order, the predicate accepts
Find(entries, tagId) ==
    LET hits == {i \in 1..Len(entries) : entries[i].tag = tagId} IN
    IF hits = {} THEN Undefined
    ELSE Defined(entries[CHOOSE i \in hits : \A j \in hits : i <= j])

getTagValue(ifd, tagId) ==
    LET entry == Find(ifd.entries, tagId) IN
    IF entry.undefined THEN Undefined ELSE Defined(entry.value.value)

isTiled_WithByteCounts(ifd) ==
    /\ ~getTagValue(ifd, Tags.TileWidth).undefined
    /\ ~getTagValue(ifd, Tags.TileLength).undefined
    /\ ~getTagValue(ifd, Tags.TileOffsets).undefined
    /\ ~getTagValue(ifd, Tags.TileByteCounts).undefined

isTiled(ifd) ==
    LET hasTileWidth == ~getTagValue(ifd, Tags.TileWidth).undefined
        hasTileLength == ~getTagValue(ifd, Tags.TileLength).undefined
        hasTileOffsets == ~getTagValue(ifd, Tags.TileOffsets).undefined
    IN hasTileWidth /\ hasTileLength /\ hasTileOffsets

estimateIfdSize_WideRecords(ifd) == 8 + Len(ifd.entries) * 20

estimateIfdSize(ifd) ==
    LET entrySize == 12
        overhead == 6
    IN overhead + Len(ifd.entries) * entrySize

NotTiledMessage(index) ==
    LET label == IF index = 0 THEN "Main image" ELSE "Overview " \o ToString(index)
    IN label \o " is not tiled"

\* the first forEach of validate: one message per element that is not tiled,
\* in index order (index counts from 0)
TilingErrors(list) ==
    LET indexes == [i \in 1..Len(list) |-> i - 1]
        notTiled == SelectSeq(indexes, LAMBDA index : ~isTiled(list[index + 1]))
    IN [k \in 1..Len(notTiled) |-> NotTiledMessage(notTiled[k])]

\* the second forEach of validate: the TileOffsets value of every element that
\* has one, in index order
TileDataOffsets(list) ==
    LET having == SelectSeq(list,
                    LAMBDA ifd : ~getTagValue(ifd, Tags.TileOffsets).undefined)
    IN [k \in 1..Len(having) |->
          Number(getTagValue(having[k], Tags.TileOffsets).value)]

\* Math.max and Math.min of a non-empty list
MathMax(xs) == CHOOSE m \in {xs[i] : i \in 1..Len(xs)} : \A i \in 1..Len(xs) : xs[i] <= m

MathMin(xs) == CHOOSE m \in {xs[i] : i \in 1..Len(xs)} : \A i \in 1..Len(xs) : m <= xs[i]

InterleavedWarning(firstTileData, lastIfdEnd) ==
    IF firstTileData < lastIfdEnd THEN <<"Tile data may be interleaved with IFDs.">>
    ELSE <<>>

NoIfds_NoError == [valid |-> TRUE, errors |-> <<>>, warnings |-> <<>>]

\* errors.push("No IFDs found in file"); return { valid: false, errors, warnings }
NoIfds == [valid |-> FALSE, errors |-> <<"No IFDs found in file">>, warnings |-> <<>>]

ValidationResult_NoWarnings(errors, warnings) ==
    [valid |-> (Len(errors) = 0 /\ Len(warnings) = 0),
     errors |-> errors, warnings |-> warnings]

\* return { valid: errors.length === 0, errors, warnings }
ValidationResult(errors, warnings) ==
    [valid |-> (Len(errors) = 0), errors |-> errors, warnings |-> warnings]

validate(s) ==
    IF Len(s.ifds) = 0
    THEN NoIfds
    ELSE
      LET errors == TilingErrors(s.ifds)
          ifdOffsets == [i \in 1..Len(s.ifds) |-> Number(s.ifds[i].offset)]
          lastIfdEnd == MathMax(ifdOffsets) + estimateIfdSize(s.ifds[Len(s.ifds)])
          tileDataOffsets == TileDataOffsets(s.ifds)
          warnings == IF Len(tileDataOffsets) > 0
                      THEN InterleavedWarning(MathMin(tileDataOffsets), lastIfdEnd)
                      ELSE <<>>
      IN ValidationResult(errors, warnings)

---------------------------------------------------------------------------
(* parseTiff and main: one action per step *)

\* the Error object a throw carries
ErrorOf(e) == [name |-> e.name, message |-> e.message]

\* an exception leaves parseTiff: main reports it and exits
Fail(e) ==
    /\ pc' = "failed"
    /\ error' = ErrorOf(e)

AtLimit_OffByOne(count) == count > MAX_IFDS

AtLimit_Never(count) == FALSE

\* if (ifds.length >= MAX_IFDS)
AtLimit(count) == count >= MAX_IFDS

SeenBefore_Never(seen, offsetKey) == FALSE

\* seenOffsets.has(offsetKey)
SeenBefore(seen, offsetKey) == offsetKey \in seen

Push_Front(list, x) == <<x>> \o list

\* ifds.push(ifd)
Push(list, x) == Append(list, x)

\* parseTiff: const header = parseHeader(view)
ParseHeader ==
    /\ pc = "parseHeader"
    /\ \E h \in {parseHeader(view)} :
       IF h.thrown
       THEN /\ Fail(h)
            /\ UNCHANGED <<header, currentOffset>>
       ELSE /\ header' = h.value
            /\ currentOffset' = h.value.firstIfdOffset
            /\ pc' = "parseAllIfds"
            /\ UNCHANGED error
    /\ UNCHANGED <<view, seenOffsets, ifds, parseIfdCalls, structure, result>>

\* parseAllIfds: one iteration of the while loop
WalkStep ==
    /\ pc = "parseAllIfds"
    /\ currentOffset # 0
    /\ IF AtLimit(Len(ifds))
       THEN /\ Fail(TooManyIfds)
            /\ UNCHANGED <<currentOffset, seenOffsets, ifds, parseIfdCalls>>
       ELSE
         LET offsetKey == BigInt(currentOffset) IN
         IF SeenBefore(seenOffsets, offsetKey)
         THEN /\ Fail(CircularIfd(currentOffset))
              /\ UNCHANGED <<currentOffset, seenOffsets, ifds, parseIfdCalls>>
         ELSE
           \E ifd \in {parseIfd(view, currentOffset, header)} :
           /\ seenOffsets' = seenOffsets \cup {offsetKey}
           /\ parseIfdCalls' = parseIfdCalls + 1
           /\ IF ifd.thrown
              THEN /\ Fail(ifd)
                   /\ UNCHANGED <<currentOffset, ifds>>
              ELSE /\ ifds' = Push(ifds, ifd.value)
                   /\ currentOffset' = ifd.value.nextIfdOffset
                   /\ UNCHANGED <<pc, error>>
    /\ UNCHANGED <<view, header, structure, result>>

\* parseAllIfds: the loop ends and the list is returned; parseTiff returns
WalkReturn ==
    /\ pc = "parseAllIfds"
    /\ currentOffset = 0
    /\ structure' = [header |-> header, ifds |-> ifds]
    /\ pc' = "validate"
    /\ UNCHANGED <<view, header, currentOffset, seenOffsets, ifds, parseIfdCalls,
                   error, result>>

\* main: const result = validate(structure)
Validate ==
    /\ pc = "validate"
    /\ result' = validate(structure)
    /\ pc' = "done"
    /\ UNCHANGED <<view, header, currentOffset, seenOffsets, ifds, parseIfdCalls,
                   structure, error>>

Next == ParseHeader \/ WalkStep \/ WalkReturn \/ Validate

---------------------------------------------------------------------------
(* The files and structures the program is run on *)

MaxFileDirs == 2

MaxEntries == 3

MaxDirs == 2

\* the file cut short at every length, the whole file included
Prefixes(file) == {SubSeq(file, 1, len) : len \in 0..Len(file)}

Bytes(file) == [bytes |-> file]

\* every chain of at most maxDirs directories of at most maxEntries entries,
\* whatever its pointers
SmallChainFiles(maxDirs, maxEntries) ==
    UNION {
      { ChainFile(le, big, ne, first, next) :
          le \in BOOLEAN, big \in BOOLEAN, ne \in 0..maxEntries,
          first \in 0..n, next \in [1..n -> 0..n] }
      : n \in 0..maxDirs }

\* every truncation of every chain of at most maxDirs directories in file order
TruncatedFiles(maxDirs, maxEntries) ==
    UNION { Prefixes(ChainFile(le, big, ne, 1,
                               [k \in 1..n |-> IF k < n THEN k + 1 ELSE 0])) :
              le \in BOOLEAN, big \in BOOLEAN, ne \in 0..maxEntries, n \in 1..maxDirs }

\* 16-byte files with any marker and format code; the numbers at bytes 4-7 and
\* 8-15 are written in the byte order the marker announces
HeaderOnlyFiles ==
    { <<b0, b1, b2, b3>>
      \o Encode(a, 4, b0 = 73) \o Encode(b, 8, b0 = 73) :
        b0 \in {73, 77, 0}, b1 \in {73, 77, 0},
        b2 \in {0, 42, 43}, b3 \in {0, 42, 43},
        a \in {0, 8, 258}, b \in {0, 16, 258} }

\* chains of max - 1, max and max + 1 empty directories in file order, the last
\* one pointing at nothing, at the first directory, or at directory max - 1
LongChainFiles(max) ==
    [littleEndian : BOOLEAN, bigTiff : BOOLEAN, dirs : (max - 1)..(max + 1),
     close : {0, 1, max - 1}]

InitParse(v) ==
    /\ view = v
    /\ pc = "parseHeader"
    /\ header = None
    /\ currentOffset = 0
    /\ seenOffsets = {}
    /\ ifds = <<>>
    /\ parseIfdCalls = 0
    /\ structure = None
    /\ error = None
    /\ result = None

Init ==
    \E file \in SmallChainFiles(MaxFileDirs, MaxEntries)
                 \cup TruncatedFiles(MaxFileDirs, MaxEntries)
                 \cup UNION {Prefixes(f) : f \in HeaderOnlyFiles} :
        InitParse(Bytes(file))

Spec == Init /\ [][Next]_vars

InitChain ==
    \/ \E file \in LongChainFiles(MAX_IFDS) : InitParse(file)
    \/ \E file \in SmallChainFiles(MaxFileDirs, MaxEntries) : InitParse(Bytes(file))

SpecChain == InitChain /\ [][Next]_vars

FairSpecChain == SpecChain /\ WF_vars(Next)

---------------------------------------------------------------------------
(* validate on structures built directly, as tests/validator.test.ts does *)

\* createIfd of the tests: type 4 (LONG), count 1
Entry(tag, value) == [tag |-> tag, type |-> 4, count |-> 1, value |-> value]

IfdOffsets == {8, 20}

TileOffsetValues == {38, 60}

\* the entries with a tag in tags, in ascending tag order
EntriesOf(tags, tileOffset) ==
    SelectSeq(<<Entry(Tags.TileWidth, 512), Entry(Tags.TileLength, 512),
                Entry(Tags.TileOffsets, tileOffset),
                Entry(Tags.TileByteCounts, 2000)>>,
              LAMBDA e : e.tag \in tags)

TileTags == {Tags.TileWidth, Tags.TileLength, Tags.TileOffsets, Tags.TileByteCounts}

\* entry lists that repeat a tag
DuplicateEntryLists ==
    UNION {
      { <<Entry(Tags.TileOffsets, a), Entry(Tags.TileOffsets, b)>> \o rest :
          b \in TileOffsetValues \ {a},
          rest \in {<<>>, EntriesOf({Tags.TileWidth, Tags.TileLength}, a)} }
      : a \in TileOffsetValues }

EntryLists ==
    { EntriesOf(tags, tileOffset) :
        tags \in SUBSET TileTags, tileOffset \in TileOffsetValues }
    \cup DuplicateEntryLists

Ifds ==
    [offset : IfdOffsets, entries : EntryLists, nextIfdOffset : {0}]

Headers ==
    [bigTiff : BOOLEAN, littleEndian : {TRUE}, firstIfdOffset : {8}]

InitValidate ==
    /\ \E h \in Headers, n \in 0..MaxDirs :
         \E list \in [1..n -> Ifds] :
           structure = [header |-> h, ifds |-> list]
    /\ view = Bytes(<<>>)
    /\ pc = "validate"
    /\ header = structure.header
    /\ currentOffset = 0
    /\ seenOffsets = {}
    /\ ifds = structure.ifds
    /\ parseIfdCalls = 0
    /\ error = None
    /\ result = None

NextValidate == Validate

SpecValidate == InitValidate /\ [][NextValidate]_vars

---------------------------------------------------------------------------
(* The chain walk: parseAllIfds *)

\* the walk stands at a non-zero offset it has already visited
VisitedAgain ==
    /\ pc = "parseAllIfds"
    /\ currentOffset # 0
    /\ BigInt(currentOffset) \in seenOffsets

\* C1, as claimed: whenever the current offset of the walk is non-zero and was
\* visited earlier in the walk, the walk fails with the circular-reference
\* error naming that offset and returns no structure, at every chain length.
C1_CircularAtEveryLength ==
    [][VisitedAgain =>
         /\ pc' = "failed"
         /\ error' = ErrorOf(CircularIfd(currentOffset))
         /\ structure' = None]_vars

\* C1, amended: whenever the current offset of the walk is non-zero and was
\* visited earlier in the walk, the walk fails and returns no structure; the
\* error is the circular-reference error naming that offset when fewer than
\* MAX_IFDS directories have been read, and the maximum-count error when
\* MAX_IFDS directories have been read.
C1_VisitedOffsetFails ==
    [][VisitedAgain =>
         /\ pc' = "failed"
         /\ structure' = None
         /\ parseIfdCalls' = parseIfdCalls
         /\ error' = IF Len(ifds) < MAX_IFDS
                     THEN ErrorOf(CircularIfd(currentOffset))
                     ELSE ErrorOf(TooManyIfds)]_vars

\* a walk that has failed on a cycle, some directories read
C1_Witness ==
    /\ pc = "failed"
    /\ currentOffset # 0
    /\ currentOffset \in seenOffsets
    /\ Len(ifds) > 1
    /\ error = ErrorOf(CircularIfd(currentOffset))

\* C2: at most MAX_IFDS directories are read.  With MAX_IFDS directories read
\* and the next offset 0 the whole list is returned; with MAX_IFDS directories
\* read and a non-zero next offset the walk fails with the maximum-count error
\* (which carries MAX_IFDS), reads no further directory and returns nothing.
C2_CapAtMaxIfds ==
    /\ [](parseIfdCalls <= MAX_IFDS /\ Len(ifds) <= MAX_IFDS)
    /\ [][(pc = "parseAllIfds" /\ Len(ifds) = MAX_IFDS) =>
            IF currentOffset = 0
            THEN /\ pc' = "validate"
                 /\ structure' = [header |-> header, ifds |-> ifds]
                 /\ Len(structure'.ifds) = MAX_IFDS
            ELSE /\ pc' = "failed"
                 /\ error' = ErrorOf(Throw("Error",
                      "Esceeded maximum IFD count (1000), file may be malformed"))
                 /\ parseIfdCalls' = parseIfdCalls
                 /\ structure' = None]_vars

\* a chain whose directory number MAX_IFDS points at a directory not yet read
C2_Witness ==
    /\ pc = "failed"
    /\ error = ErrorOf(TooManyIfds)
    /\ parseIfdCalls = MAX_IFDS
    /\ currentOffset # 0
    /\ currentOffset \notin seenOffsets
    /\ structure = None

\* the walk is over: parseAllIfds has returned or thrown
WalkOver == pc \in {"validate", "done", "failed"}

\* C3: the walk ends, returning or failing, after at most MAX_IFDS calls of
\* parseIfd, with never more than MAX_IFDS offsets in the visited set.
C3_WalkTerminates ==
    /\ <>WalkOver
    /\ [](parseIfdCalls <= MAX_IFDS /\ Cardinality(seenOffsets) <= MAX_IFDS)

\* a walk that ended with MAX_IFDS calls made and MAX_IFDS offsets visited
C3_Witness ==
    /\ WalkOver
    /\ parseIfdCalls = MAX_IFDS
    /\ Cardinality(seenOffsets) = MAX_IFDS

---------------------------------------------------------------------------
(* The bytes of a buffer, read without the parser *)

\* the size-byte field at offset first lies inside the buffer
InBuffer(v, first, size) == first + size <= ByteLength(v)

\* the bytes of that field, in file order
BytesOf(v, first, size) == [j \in 1..size |-> ByteAt(v, first + j - 1)]

Reverse(bs) == [j \in 1..Len(bs) |-> bs[Len(bs) + 1 - j]]

\* the unsigned integer whose digits in base 256 are bs, the most significant first
RECURSIVE BigEndianValue(_)
BigEndianValue(bs) ==
    IF bs = <<>> THEN 0
    ELSE BigEndianValue(SubSeq(bs, 1, Len(bs) - 1)) * 256 + bs[Len(bs)]

\* the unsigned integer written in that field
UintAt(v, first, size, littleEndian) ==
    BigEndianValue(IF littleEndian THEN Reverse(BytesOf(v, first, size))
                                   ELSE BytesOf(v, first, size))

---------------------------------------------------------------------------
(* The directory reader: parseIfd *)

\* the names of the errors parseHeader and parseAllIfds throw
HeaderAndChainErrorNames ==
    {BadByteOrder.name, BadMagic(0).name, TooManyIfds.name, CircularIfd(0).name}

\* reading the directory at offset o touches a byte at or beyond the end of the
\* buffer: its count field does, or the records and the next offset behind it do
DirectoryCut(v, o, h) ==
    LET c == IF h.bigTiff THEN 8 ELSE 2
        r == IF h.bigTiff THEN 20 ELSE 12
        w == IF h.bigTiff THEN 8 ELSE 4
    IN \/ ~InBuffer(v, o, c)
       \/ ~InBuffer(v, o, c + UintAt(v, o, c, h.littleEndian) * r + w)

\* C4: whenever parseIfd is called on a directory that is cut by the end of the
\* buffer (in its count, in a record or in its next offset) it throws an error
\* of another kind than the header and chain errors and the directory list gets
\* no new element; on a directory that lies inside the buffer it returns one;
\* no directory of the list is ever cut by the end of the buffer.
C4_TruncatedDirectoryFails ==
    /\ [][parseIfdCalls' # parseIfdCalls =>
            IF DirectoryCut(view, currentOffset, header)
            THEN /\ pc' = "failed"
                 /\ error'.name = "RangeError"
                 /\ error'.name \notin HeaderAndChainErrorNames
                 /\ ifds' = ifds
                 /\ structure' = None
            ELSE /\ pc' = "parseAllIfds"
                 /\ Len(ifds') = Len(ifds) + 1
                 /\ ifds'[Len(ifds')].offset = currentOffset
                 /\ error' = None]_vars
    /\ [](\A i \in 1..Len(ifds) : ~DirectoryCut(view, ifds[i].offset, header))

\* the second directory of a file is cut inside its records: its count is read
C4_Witness ==
    /\ pc = "failed"
    /\ error.name = "RangeError"
    /\ Len(ifds) = 1
    /\ parseIfdCalls = 2
    /\ InBuffer(view, currentOffset, IF header.bigTiff THEN 8 ELSE 2)
    /\ UintAt(view, currentOffset, IF header.bigTiff THEN 8 ELSE 2,
              header.littleEndian) > 0
    /\ DirectoryCut(view, currentOffset, header)

---------------------------------------------------------------------------
(* The header: parseHeader *)

HeaderParsed == pc \in {"parseAllIfds", "validate", "done", "failed"}

\* bytes 0-1 are 0x49 0x49 or 0x4d 0x4d
RecognisedMarker(v) ==
    \/ ByteAt(v, 0) = 73 /\ ByteAt(v, 1) = 73
    \/ ByteAt(v, 0) = 77 /\ ByteAt(v, 1) = 77

\* bytes 2-3 read in the byte order of the marker
FormatCode(v) ==
    IF ByteAt(v, 0) = 73 THEN ByteAt(v, 2) + 256 * ByteAt(v, 3)
    ELSE 256 * ByteAt(v, 2) + ByteAt(v, 3)

\* parseTiff has thrown e with no header returned and no directory read
Rejected(e) ==
    /\ pc = "failed"
    /\ error = ErrorOf(e)
    /\ header = None
    /\ parseIfdCalls = 0
    /\ ifds = <<>>
    /\ structure = None

\* C5: once parseHeader has run, a buffer whose bytes 0-1 are neither 0x49 0x49
\* nor 0x4d 0x4d was rejected with the bad-byte-order-marker error, and a buffer
\* with a recognised marker whose bytes 2-3, read in the detected byte order,
\* are neither 42 nor 43 was rejected with the bad-magic-number error that
\* carries that value; no header was returned and no directory was read.
C5_MalformedHeaderRejected ==
    HeaderParsed =>
      /\ (ByteLength(view) >= 2 /\ ~RecognisedMarker(view)) =>
           Rejected(Throw("Error", "Not a valid TIFF file: bad byte order marker"))
      /\ (ByteLength(view) >= 4 /\ RecognisedMarker(view)
            /\ FormatCode(view) \notin {42, 43}) =>
           Rejected(Throw("Error", "Not a valid TIFF file: bad magic number "
                                     \o ToString(FormatCode(view))))

\* a little-endian file whose format code 42 is written the big-endian way
C5_Witness ==
    /\ pc = "failed"
    /\ ByteLength(view) >= 4
    /\ ByteAt(view, 0) = 73 /\ ByteAt(view, 1) = 73
    /\ FormatCode(view) = 10752
    /\ error.message = "Not a valid TIFF file: bad magic number 10752"
    /\ header = None

\* the buffer starts with a whole valid header
ValidHeader(v) ==
    /\ ByteLength(v) >= 4
    /\ RecognisedMarker(v)
    /\ FormatCode(v) \in {42, 43}
    /\ ByteLength(v) >= (IF FormatCode(v) = 43 THEN 16 ELSE 8)

\* C6: once parseHeader has run on a buffer that starts with a valid header,
\* the header it returned has littleEndian = (the marker is 0x4949), bigTiff =
\* (the format code is 43) and firstIfdOffset = the unsigned integer written in
\* bytes 4-7 (format code 42) or in bytes 8-15 (format code 43), in the byte
\* order of the marker.
C6_HeaderDecoded ==
    (HeaderParsed /\ ValidHeader(view)) =>
      header = [littleEndian |-> (ByteAt(view, 0) = 73),
                bigTiff |-> (FormatCode(view) = 43),
                firstIfdOffset |->
                  IF FormatCode(view) = 43
                  THEN UintAt(view, 8, 8, ByteAt(view, 0) = 73)
                  ELSE UintAt(view, 4, 4, ByteAt(view, 0) = 73)]

\* a big-endian BigTIFF header whose bytes 4-7 and 8-15 hold different numbers
C6_Witness ==
    /\ HeaderParsed
    /\ ValidHeader(view)
    /\ header.bigTiff
    /\ ~header.littleEndian
    /\ header.firstIfdOffset = 258
    /\ UintAt(view, 4, 4, FALSE) = 8

---------------------------------------------------------------------------
(* The validator: validate *)

Validated == pc = "done"

\* C7: the result of validate has valid = TRUE exactly when it has no errors,
\* whether or not it has a warning.
C7_ValidIffNoErrors ==
    Validated => (result.valid <=> result.errors = <<>>)

\* a valid result that carries the interleaving warning
C7_Witness ==
    /\ Validated
    /\ result.valid
    /\ result.errors = <<>>
    /\ result.warnings # <<>>

\* C8: on an empty directory list validate returns valid = FALSE, the one error
\* "No IFDs found in file" and no warning.
C8_EmptyListShortCircuits ==
    (Validated /\ Len(structure.ifds) = 0) =>
      result = [valid |-> FALSE, errors |-> <<"No IFDs found in file">>,
                warnings |-> <<>>]

C8_Witness ==
    /\ Validated
    /\ structure.ifds = <<>>
    /\ ~result.valid
    /\ Len(result.errors) = 1

\* the directory has an entry with tag t
HasTag(ifd, t) == \E k \in 1..Len(ifd.entries) : ifd.entries[k].tag = t

\* the directory lacks tag 322, 323 or 324
LacksTileTag(ifd) == \E t \in {322, 323, 324} : ~HasTag(ifd, t)

IndexLabel(index) ==
    IF index = 0 THEN "Main image is not tiled"
    ELSE "Overview " \o ToString(index) \o " is not tiled"

\* one message for each of the first n directories that lacks a tile tag
RECURSIVE ExpectedErrors(_, _)
ExpectedErrors(list, n) ==
    IF n = 0 THEN <<>>
    ELSE ExpectedErrors(list, n - 1)
         \o (IF LacksTileTag(list[n]) THEN <<IndexLabel(n - 1)>> ELSE <<>>)

\* the structure with every entry of tag t taken out of every directory
WithoutTag(s, t) ==
    [s EXCEPT !.ifds =
       [i \in 1..Len(s.ifds) |->
          [s.ifds[i] EXCEPT !.entries = SelectSeq(@, LAMBDA e : e.tag # t)]]]

\* C9: on a non-empty directory list the errors of validate are one message per
\* directory that lacks tag 322, 323 or 324, in index order, "Main image is not
\* tiled" for index 0 and "Overview <index> is not tiled" above; they are the
\* same with the entries of tag 325 taken out.
C9_TilingErrors ==
    (Validated /\ Len(structure.ifds) > 0) =>
      /\ result.errors = ExpectedErrors(structure.ifds, Len(structure.ifds))
      /\ result.errors = validate(WithoutTag(structure, 325)).errors

\* two directories that are not tiled, the first one with tag 325
C9_Witness ==
    /\ Validated
    /\ Len(structure.ifds) = 2
    /\ HasTag(structure.ifds[1], 325)
    /\ result.errors = <<"Main image is not tiled", "Overview 1 is not tiled">>

\* the value of the first entry of the directory with tag t
FirstValue(ifd, t) ==
    LET at == {k \in 1..Len(ifd.entries) : ifd.entries[k].tag = t}
    IN ifd.entries[CHOOSE k \in at : \A j \in at : k <= j].value

\* the tile-data offsets (tag 324) of the directories that have one
TileOffsetsIn(list) ==
    {FirstValue(list[i], 324) : i \in {j \in 1..Len(list) : HasTag(list[j], 324)}}

\* the maximum offset of a directory plus 6 + 12 x the entry count of the last
LastIfdEndEstimate(list) ==
    LET offsets == {list[i].offset : i \in 1..Len(list)}
    IN (CHOOSE m \in offsets : \A o \in offsets : o <= m)
       + 6 + 12 * Len(list[Len(list)].entries)

\* C10: on a non-empty directory list validate gives the one warning "Tile data
\* may be interleaved with IFDs." when some directory has tag 324 and the least
\* tile-data offset is below the maximum directory offset plus 6 + 12 x the
\* entry count of the last directory of the list, and no warning otherwise.
C10_InterleavingWarning ==
    (Validated /\ Len(structure.ifds) > 0) =>
      result.warnings =
        IF \E t \in TileOffsetsIn(structure.ifds) :
             t < LastIfdEndEstimate(structure.ifds)
        THEN <<"Tile data may be interleaved with IFDs.">>
        ELSE <<>>

\* a BigTIFF structure whose last directory is not the one of maximum offset:
\* measured from the last directory's own offset there would be no warning
C10_Witness ==
    /\ Validated
    /\ structure.header.bigTiff
    /\ Len(structure.ifds) = 2
    /\ structure.ifds[1].offset > structure.ifds[2].offset
    /\ result.warnings = <<"Tile data may be interleaved with IFDs.">>
    /\ \A t \in TileOffsetsIn(structure.ifds) :
         t >= structure.ifds[2].offset + 6 + 12 * Len(structure.ifds[2].entries)

---------------------------------------------------------------------------
(* The tag lookup: getTagValue *)

\* entry k of the list repeats the tag of an earlier entry
LaterDuplicate(entries, k) == \E j \in 1..(k - 1) : entries[j].tag = entries[k].tag

\* the structure with the value of every entry that repeats an earlier tag of
\* its directory replaced by 0
LaterDuplicatesZeroed(s) ==
    [s EXCEPT !.ifds =
       [i \in 1..Len(s.ifds) |->
          [s.ifds[i] EXCEPT !.entries =
             [k \in 1..Len(@) |->
                IF LaterDuplicate(@, k) THEN [@[k] EXCEPT !.value = 0] ELSE @[k]]]]]

\* the tags looked up: the tile tags and one that no directory holds
LookedUpTags == TileTags \cup {Tags.ImageWidth}

\* C11: for every directory validate has examined and every tag, getTagValue
\* gives the value of the first entry, in stored order, that has the tag, and
\* undefined when no entry has it; the result of validate is the same when the
\* values of the entries that repeat an earlier tag of their directory are
\* replaced.
C11_FirstMatchOnly ==
    Validated =>
      /\ \A i \in 1..Len(structure.ifds) : \A t \in LookedUpTags :
           getTagValue(structure.ifds[i], t) =
             IF HasTag(structure.ifds[i], t)
             THEN Defined(FirstValue(structure.ifds[i], t))
             ELSE Undefined
      /\ \A i \in 1..Len(structure.ifds) :
           isTiled(structure.ifds[i]) = isTiled(LaterDuplicatesZeroed(structure).ifds[i])
      /\ TileDataOffsets(structure.ifds)
           = TileDataOffsets(LaterDuplicatesZeroed(structure).ifds)
      /\ result = validate(LaterDuplicatesZeroed(structure))

\* one directory with tag 324 twice, 60 before 38: no warning, and there would
\* be one if the later entry were used
C11_Witness ==
    /\ Validated
    /\ Len(structure.ifds) = 1
    /\ structure.ifds[1].offset = 20
    /\ Len(structure.ifds[1].entries) = 2
    /\ structure.ifds[1].entries[1] = Entry(Tags.TileOffsets, 60)
    /\ structure.ifds[1].entries[2] = Entry(Tags.TileOffsets, 38)
    /\ result.warnings = <<>>
    /\ 38 < LastIfdEndEstimate(structure.ifds)

---------------------------------------------------------------------------
(* The directory layout: parseIfd and parseIfdEntry *)

\* the record at offset at: tag at +0 and type at +2 (2 bytes each), count at
\* +4 and value behind it (w bytes each)
RecordAt(v, at, w, littleEndian) ==
    [tag |-> UintAt(v, at, 2, littleEndian),
     type |-> UintAt(v, at + 2, 2, littleEndian),
     count |-> UintAt(v, at + 4, w, littleEndian),
     value |-> UintAt(v, at + 4 + w, w, littleEndian)]

\* the directory written at offset o: a count of c bytes, that many records of
\* r bytes, a next offset of w bytes (c = 2, r = 12, w = 4 classic; c = 8,
\* r = 20, w = 8 BigTIFF)
DirectoryAt(v, o, h) ==
    LET c == IF h.bigTiff THEN 8 ELSE 2
        r == IF h.bigTiff THEN 20 ELSE 12
        w == IF h.bigTiff THEN 8 ELSE 4
        n == UintAt(v, o, c, h.littleEndian)
    IN [offset |-> o,
        entries |-> [i \in 1..n |-> RecordAt(v, o + c + (i - 1) * r, w, h.littleEndian)],
        nextIfdOffset |-> UintAt(v, o + c + n * r, w, h.littleEndian)]

\* C12: whenever parseIfd is called on a directory that lies inside the buffer,
\* the directory it returns, appended to the list, has the offset it was called
\* with, as many entries as the count field at that offset says, entry i read
\* from the record at o + c + i * r (tag at +0, type at +2, count at +4, value
\* at +8 classic and +12 BigTIFF), and the next offset read from the field at
\* o + c + n * r, where the walk goes on.
C12_DirectoryLayout ==
    [][(parseIfdCalls' # parseIfdCalls /\ ~DirectoryCut(view, currentOffset, header)) =>
         /\ ifds' = Append(ifds, DirectoryAt(view, currentOffset, header))
         /\ currentOffset' = DirectoryAt(view, currentOffset, header).nextIfdOffset]_vars

\* a big-endian BigTIFF directory of three entries followed by another one
C12_Witness ==
    /\ header # None
    /\ header.bigTiff
    /\ ~header.littleEndian
    /\ Len(ifds) >= 1
    /\ Len(ifds[1].entries) = 3
    /\ ifds[1].entries[3] = RecordAt(view, ifds[1].offset + 8 + 40, 8, FALSE)
    /\ ifds[1].entries[3].tag = 324
    /\ ifds[1].entries[3].count = 1
    /\ ifds[1].entries[3].value = 103
    /\ ifds[1].nextIfdOffset > ifds[1].offset

---------------------------------------------------------------------------
(* The returned chain: parseAllIfds and parseTiff *)

\* parseTiff has returned
Parsed == pc \in {"validate", "done"}

\* C13: whenever parseTiff has returned, the directory list is the chain in
\* walk order: it is empty exactly when the first offset of the header is 0;
\* otherwise its first directory lies at that offset, every further directory
\* lies where the one before it points, the last one points at 0, the offsets
\* are non-zero and pairwise different, and there are at most MAX_IFDS of them.
C13_ChainInOrder ==
    Parsed =>
      /\ structure.header = header
      /\ (structure.ifds = <<>>) <=> (structure.header.firstIfdOffset = 0)
      /\ Len(structure.ifds) > 0 =>
           /\ structure.ifds[1].offset = structure.header.firstIfdOffset
           /\ structure.ifds[Len(structure.ifds)].nextIfdOffset = 0
      /\ \A i \in 1..(Len(structure.ifds) - 1) :
           structure.ifds[i + 1].offset = structure.ifds[i].nextIfdOffset
      /\ \A i \in 1..Len(structure.ifds) : structure.ifds[i].offset # 0
      /\ Cardinality({structure.ifds[i].offset : i \in 1..Len(structure.ifds)})
           = Len(structure.ifds)
      /\ Len(structure.ifds) <= 1000

\* a returned chain of two directories that runs against the file order
C13_Witness ==
    /\ Parsed
    /\ Len(structure.ifds) = 2
    /\ structure.ifds[1].offset = structure.header.firstIfdOffset
    /\ structure.ifds[1].offset > structure.ifds[2].offset
    /\ structure.ifds[1].nextIfdOffset = structure.ifds[2].offset
    /\ structure.ifds[2].nextIfdOffset = 0

====
